---- MODULE Spec2Model ----
(***************************************************************************)
(* A model of src/main.py: the Telegram/Gemini relay bot.                  *)
(*                                                                         *)
(* Every aiogram update is handled by its own asyncio task.  A handler is  *)
(* cut into steps at its await points: the code between two awaits runs    *)
(* without interruption on the single event loop and is one action here.   *)
(* Every awaited network call (a Telegram send, the Gemini call) may       *)
(* return or raise.                                                        *)
(*                                                                         *)
(* Units.  The wall clock is counted in ticks of a quarter of a second,    *)
(* so MIN_DELAY (0.5 s) is 2 ticks.  The daily cap (30 in the source) and  *)
(* the chunk size (4000 in the source) are scaled down so that the cap     *)
(* and a multi-chunk reply are reached within the bounds.                  *)
(***************************************************************************)
EXTENDS Integers, Sequences, FiniteSets, TLC

\* ------------------------------------------------------------- bounds
MaxTasks == 3      \* updates (handler tasks) of one run
NumUsers == 2      \* distinct chat ids
MaxDay == 2        \* calendar days of one run
MaxTextLen == 3    \* longest model reply, in characters

\* -------------------------------------------------- program constants
MAX_MESSAGES_PER_DAY == 2   \* 30 in the source, scaled
MIN_DELAY == 2              \* 0.5 s in the source, in quarter seconds
MAX_LENGTH == 2             \* split_text's max_length=4000, scaled

Tasks == 1..MaxTasks
Users == 1..NumUsers

\* ------------------------------------------------------- dictionaries
\* A Python dict is a function whose domain is its key set.
EmptyDict == [k \in {} |-> 0]
Put(d, k, v) == [x \in (DOMAIN d) \cup {k} |-> IF x = k THEN v ELSE d[x]]
Del(d, k) == [x \in (DOMAIN d) \ {k} |-> d[x]]

\* --------------------------------------------------------- rate limit
\* check_user_limit: the answer and the dict as the call leaves it.
check_user_limit_le(limits, chat_id, day) ==
    IF chat_id \notin DOMAIN limits \/ limits[chat_id].date # day
    THEN [ok |-> TRUE, limits |-> Put(limits, chat_id, [date |-> day, count |-> 0])]
    ELSE [ok |-> limits[chat_id].count <= MAX_MESSAGES_PER_DAY, limits |-> limits]

check_user_limit_stale(limits, chat_id, day) ==
    IF chat_id \notin DOMAIN limits
    THEN [ok |-> TRUE, limits |-> Put(limits, chat_id, [date |-> day, count |-> 0])]
    ELSE [ok |-> limits[chat_id].count < MAX_MESSAGES_PER_DAY, limits |-> limits]

check_user_limit_counts(limits, chat_id, day) ==
    IF chat_id \notin DOMAIN limits \/ limits[chat_id].date # day
    THEN [ok |-> TRUE, limits |-> Put(limits, chat_id, [date |-> day, count |-> 0])]
    ELSE [ok |-> limits[chat_id].count < MAX_MESSAGES_PER_DAY,
          limits |-> Put(limits, chat_id, [date |-> day, count |-> limits[chat_id].count + 1])]

check_user_limit(limits, chat_id, day) ==
    IF chat_id \notin DOMAIN limits \/ limits[chat_id].date # day
    THEN [ok |-> TRUE, limits |-> Put(limits, chat_id, [date |-> day, count |-> 0])]
    ELSE [ok |-> limits[chat_id].count < MAX_MESSAGES_PER_DAY, limits |-> limits]

inc_user_limit(limits, chat_id, day) ==
    IF chat_id \notin DOMAIN limits \/ limits[chat_id].date # day
    THEN Put(limits, chat_id, [date |-> day, count |-> 1])
    ELSE Put(limits, chat_id, [date |-> day, count |-> limits[chat_id].count + 1])

\* ----------------------------------------------------------- sessions
SYSTEM_TURN == [role |-> "user", parts |-> "SYSTEM_PROMPT"]
\* the history cmd_start seeds a session with
START_HISTORY == << SYSTEM_TURN, [role |-> "model", parts |-> "ACK_START"] >>
\* the history chat_with_gemini seeds a session with
CHAT_HISTORY == << SYSTEM_TURN, [role |-> "model", parts |-> "ACK_CHAT"] >>

\* --------------------------------------------------------- split_text
RECURSIVE split_from(_, _, _)
split_from(text, i, max_length) ==
    IF i > Len(text) THEN << >>
    ELSE LET j == IF i + max_length - 1 < Len(text) THEN i + max_length - 1 ELSE Len(text)
         IN << SubSeq(text, i, j) >> \o split_from(text, i + max_length, max_length)

\* only the chunks that are max_length long
RECURSIVE split_full_from(_, _, _)
split_full_from(text, i, max_length) ==
    IF i + max_length - 1 > Len(text) THEN << >>
    ELSE << SubSeq(text, i, i + max_length - 1) >>
         \o split_full_from(text, i + max_length, max_length)

split_text_full(text, max_length) == split_full_from(text, 1, max_length)

split_text(text, max_length) == split_from(text, 1, max_length)

\* ------------------------------------------------ responses and usage
\* An attribute that may be missing: << >> is None, <<v>> is the value v.
None == << >>
Truthy(x) == x # None /\ x[1] # 0
\* Python's `a or b`
Or(a, b) == IF Truthy(a) THEN a ELSE b
\* int(x or 0)
IntOf(x) == IF Truthy(x) THEN x[1] ELSE 0

NoFields ==
    [prompt_token_count |-> None, promptTokenCount |-> None, input_tokens |-> None,
     candidates_token_count |-> None, candidatesTokenCount |-> None, output_tokens |-> None,
     total_token_count |-> None, totalTokenCount |-> None]

\* The usage metadata objects a response may carry.
Metas ==
    { [NoFields EXCEPT !.prompt_token_count = <<1>>, !.candidates_token_count = <<1>>,
                       !.total_token_count = <<2>>],
      [NoFields EXCEPT !.promptTokenCount = <<2>>, !.candidatesTokenCount = <<1>>,
                       !.totalTokenCount = <<3>>],
      [NoFields EXCEPT !.input_tokens = <<1>>, !.output_tokens = <<1>>],
      [NoFields EXCEPT !.prompt_token_count = <<0>>, !.candidates_token_count = <<1>>,
                       !.total_token_count = <<1>>],
      NoFields }

\* The reply texts: "", "a", "ab", "abc" (characters are numbered).
Texts == { [i \in 1..n |-> i] : n \in 0..MaxTextLen }

Response(text, snake, camel) ==
    [text |-> text, usage_metadata |-> snake, usageMetadata |-> camel]

Responses ==
    { Response(txt, None, None) : txt \in Texts }
    \cup { Response(<<1>>, <<m>>, None) : m \in Metas }
    \cup { Response(<<1>>, None, <<m>>) : m \in {NoFields} }

\* line 133: the metadata object the code reads, None when there is none
MetaOf(response) ==
    IF response.usage_metadata # None THEN response.usage_metadata
    ELSE response.usageMetadata

ZeroStats(day) ==
    [date |-> day, requests |-> 0, input_tokens |-> 0, output_tokens |-> 0,
     total_tokens |-> 0]

update_usage_from_response_first_name(stats, response) ==
    LET meta == MetaOf(response) IN
    IF meta = None THEN stats
    ELSE LET m == meta[1]
             input_tokens == Or(m.prompt_token_count, <<0>>)
             output_tokens == Or(m.candidates_token_count, <<0>>)
             total_tokens == Or(m.total_token_count,
                                << input_tokens[1] + output_tokens[1] >>)
         IN [stats EXCEPT !.requests = @ + 1,
                          !.input_tokens = @ + IntOf(input_tokens),
                          !.output_tokens = @ + IntOf(output_tokens),
                          !.total_tokens = @ + IntOf(total_tokens)]

update_usage_from_response(stats, response) ==
    LET meta == MetaOf(response) IN
    IF meta = None THEN stats
    ELSE LET m == meta[1]
             input_tokens == Or(Or(Or(m.prompt_token_count, m.promptTokenCount),
                                   m.input_tokens), <<0>>)
             output_tokens == Or(Or(Or(m.candidates_token_count, m.candidatesTokenCount),
                                    m.output_tokens), <<0>>)
             total_tokens == Or(Or(m.total_token_count, m.totalTokenCount),
                                << input_tokens[1] + output_tokens[1] >>)
         IN [stats EXCEPT !.requests = @ + 1,
                          !.input_tokens = @ + IntOf(input_tokens),
                          !.output_tokens = @ + IntOf(output_tokens),
                          !.total_tokens = @ + IntOf(total_tokens)]

\* ------------------------------------------------------------- errors
\* str(e) is modelled by the set of the markers it contains.
Markers == {"429", "Resource exhausted", "Request payload size", "400"}
Errors ==
    { {}, {"429"}, {"Resource exhausted"}, {"400"}, {"Request payload size"},
      {"429", "400"}, {"Resource exhausted", "Request payload size"} }

is_quota(error_msg) == "429" \in error_msg \/ "Resource exhausted" \in error_msg
is_context(error_msg) == "Request payload size" \in error_msg \/ "400" \in error_msg

except_block_keeps(chats, chat_id, error_msg) ==
    IF is_quota(error_msg) THEN [reply |-> "TRY_LATER", chats |-> chats]
    ELSE IF is_context(error_msg) THEN [reply |-> "MEMORY_RESET", chats |-> chats]
    ELSE [reply |-> "ERROR", chats |-> chats]

except_block_context_first(chats, chat_id, error_msg) ==
    IF is_context(error_msg) THEN [reply |-> "MEMORY_RESET", chats |-> Del(chats, chat_id)]
    ELSE IF is_quota(error_msg) THEN [reply |-> "TRY_LATER", chats |-> chats]
    ELSE [reply |-> "ERROR", chats |-> chats]

except_block_clears(chats, chat_id, error_msg) ==
    IF is_quota(error_msg) THEN [reply |-> "TRY_LATER", chats |-> chats]
    ELSE IF is_context(error_msg) THEN [reply |-> "MEMORY_RESET", chats |-> EmptyDict]
    ELSE [reply |-> "ERROR", chats |-> chats]

\* lines 227-249 up to the await of the reply: the reply chosen and the store
except_block(chats, chat_id, error_msg) ==
    IF is_quota(error_msg) THEN [reply |-> "TRY_LATER", chats |-> chats]
    ELSE IF is_context(error_msg) THEN [reply |-> "MEMORY_RESET", chats |-> Del(chats, chat_id)]
    ELSE [reply |-> "ERROR", chats |-> chats]

ZeroUsage == [requests |-> 0, input_tokens |-> 0, output_tokens |-> 0, total_tokens |-> 0]

\* ------------------------------------------------- what a response reported
Val(x) == IF x = None THEN 0 ELSE x[1]
CarriesMeta(response) == response.usage_metadata # None \/ response.usageMetadata # None
\* Each count is reported under at most one of its names.  total_or_sum is the
\* reported total, or the reported input plus output when no total is reported.
ReportedUsage(response) ==
    IF ~CarriesMeta(response)
    THEN [requests |-> 0, input_tokens |-> 0, output_tokens |-> 0, total_tokens |-> 0,
          total_or_sum |-> 0]
    ELSE LET m == MetaOf(response)[1]
             i == Val(m.prompt_token_count) + Val(m.promptTokenCount) + Val(m.input_tokens)
             o == Val(m.candidates_token_count) + Val(m.candidatesTokenCount)
                  + Val(m.output_tokens)
             tot == Val(m.total_token_count) + Val(m.totalTokenCount)
         IN [requests |-> 1, input_tokens |-> i, output_tokens |-> o, total_tokens |-> tot,
             total_or_sum |-> IF tot # 0 THEN tot ELSE i + o]

AddReported(a, b) ==
    [requests |-> a.requests + b.requests,
     input_tokens |-> a.input_tokens + b.input_tokens,
     output_tokens |-> a.output_tokens + b.output_tokens,
     total_tokens |-> a.total_tokens + b.total_tokens,
     total_or_sum |-> a.total_or_sum + b.total_or_sum]

ZeroReported ==
    [requests |-> 0, input_tokens |-> 0, output_tokens |-> 0, total_tokens |-> 0,
     total_or_sum |-> 0]

AddUsage(a, b) ==
    [requests |-> a.requests + b.requests,
     input_tokens |-> a.input_tokens + b.input_tokens,
     output_tokens |-> a.output_tokens + b.output_tokens,
     total_tokens |-> a.total_tokens + b.total_tokens]

SubUsage(a, b) ==
    [requests |-> a.requests - b.requests,
     input_tokens |-> a.input_tokens - b.input_tokens,
     output_tokens |-> a.output_tokens - b.output_tokens,
     total_tokens |-> a.total_tokens - b.total_tokens]

Counters(stats) ==
    [requests |-> stats.requests, input_tokens |-> stats.input_tokens,
     output_tokens |-> stats.output_tokens, total_tokens |-> stats.total_tokens]

\* -------------------------------------------------------- environment
\* What the network does in a run: the responses and the errors Gemini gives, whether
\* a Telegram send may fail (TRUE is a delivery), and the text of a failed send.
Env(responses, errors, sends, send_errors) ==
    [responses |-> responses, errors |-> errors, sends |-> sends,
     send_errors |-> send_errors]

PlainResponse == Response(<<1>>, None, None)
Reliable == {TRUE}
Unreliable == BOOLEAN

\* -------------------------------------------------------------- state
VARIABLES
    today,              \* date.today()
    now,                \* time.time(), in ticks
    user_limits,        \* chat_id -> [date, count]
    user_chats,         \* chat_id -> the ChatSession stored for it (an object id)
    sessions,           \* the ChatSession objects ever made: id -> history
    usage_stats,        \* the ledger
    LAST_REQUEST_TS,    \* the throttle's timestamp
    ADMIN_CHAT_ID,      \* 0 when unset
    pc,                 \* each handler task's position
    kind,               \* "text" (chat_with_gemini) or "start" (cmd_start)
    chat_id,            \* message.chat.id
    admitted,           \* what check_user_limit returned to the task
    chat,               \* the local `chat`: the session the task holds, 0 for none
    wake,               \* the deadline of the task's asyncio.sleep
    parts,              \* safe_send_message: the chunks still to send
    reply,              \* the fixed reply the except block is sending
    error_msg,          \* the local error_msg
    outbox,             \* chat_id -> the messages Telegram delivered, in order
    bpc,                \* billing_notifier's position
    last_reported_date, \* billing_notifier's local
    btoday,             \* billing_notifier's local `today`
    text,               \* billing_notifier's local `text`: the report being sent
    reports,            \* the reports delivered to the admin
    \* history variables, read by no action's guard
    ord,                \* the task's message is the ord-th text of its user that day
    invoked,            \* whether send_message_async was called for the task
    msgs_today,         \* chat_id -> text messages handled today
    admits_today,       \* chat_id -> text messages admitted today
    prev_slot,          \* LAST_REQUEST_TS before its latest write
    recorded,           \* day -> the usage update_usage_from_response added that day
    reported,           \* the usage the responses reported since the last reset
    overflowed          \* chat_id -> a context overflow is the user's latest event

clock == << today, now >>
store == << user_limits, user_chats, sessions >>
locals == << kind, chat_id, admitted, chat, wake, parts, reply, error_msg >>
billing == << bpc, last_reported_date, btoday, text, reports >>
history == << ord, invoked, msgs_today, admits_today, prev_slot, recorded,
              reported, overflowed >>
vars == << clock, store, usage_stats, LAST_REQUEST_TS, ADMIN_CHAT_ID, pc, locals,
           outbox, billing, history >>

Days == 1..MaxDay

\* The process after start-up, with or without an admin to report to.
InitWith(admins) ==
    /\ today = 1
    /\ now = MIN_DELAY            \* the epoch is long past: the first call never waits
    /\ user_limits = EmptyDict
    /\ user_chats = EmptyDict
    /\ sessions = << >>
    /\ usage_stats = ZeroStats(1)
    /\ LAST_REQUEST_TS = 0
    /\ ADMIN_CHAT_ID \in admins
    /\ pc = [t \in Tasks |-> "idle"]
    /\ kind = [t \in Tasks |-> "text"]
    /\ chat_id = [t \in Tasks |-> 1]
    /\ admitted = [t \in Tasks |-> FALSE]
    /\ chat = [t \in Tasks |-> 0]
    /\ wake = [t \in Tasks |-> 0]
    /\ parts = [t \in Tasks |-> << >>]
    /\ reply = [t \in Tasks |-> "NONE"]
    /\ error_msg = [t \in Tasks |-> {}]
    /\ outbox = [u \in Users |-> << >>]
    \* billing_notifier runs to its first sleep before any update is fetched
    /\ bpc = IF ADMIN_CHAT_ID = 0 THEN "returned" ELSE "sleep"
    /\ last_reported_date = 1
    /\ btoday = 1
    /\ text = ZeroStats(1)
    /\ reports = << >>
    /\ ord = [t \in Tasks |-> 0]
    /\ invoked = [t \in Tasks |-> FALSE]
    /\ msgs_today = [u \in Users |-> 0]
    /\ admits_today = [u \in Users |-> 0]
    /\ prev_slot = 0
    /\ recorded = [d \in Days |-> ZeroUsage]
    /\ reported = ZeroReported
    /\ overflowed = [u \in Users |-> FALSE]

Init == InitWith({0, 1})

\* ------------------------------------------------------------ handlers
\* Updates are fetched in order and each handler task starts in that order.  Chat
\* ids are interchangeable: the users are numbered in the order they first write.
Arrives(t, u) ==
    /\ pc[t] = "idle"
    /\ \A s \in Tasks : s < t => pc[s] # "idle"
    /\ u = 1 \/ \E s \in Tasks : pc[s] # "idle" /\ chat_id[s] = u - 1

Sent(t, k, body, mode) == [task |-> t, kind |-> k, body |-> body, mode |-> mode]
\* message.answer: the message reaches the chat when ok, else the call raises
Answer(t, ok, k, body, mode) ==
    outbox' = IF ok THEN [outbox EXCEPT ![chat_id[t]] = Append(@, Sent(t, k, body, mode))]
              ELSE outbox

\* The handler returns ("done") or an exception leaves it ("raised"): its locals die.
Return(t, how) ==
    /\ pc' = [pc EXCEPT ![t] = how]
    /\ chat' = [chat EXCEPT ![t] = 0]
    /\ wake' = [wake EXCEPT ![t] = 0]
    /\ parts' = [parts EXCEPT ![t] = << >>]
    /\ reply' = [reply EXCEPT ![t] = "NONE"]
    /\ error_msg' = [error_msg EXCEPT ![t] = {}]

get_or_create_always(chats, heap, u) ==
    [chats |-> Put(chats, u, Len(heap) + 1), heap |-> Append(heap, CHAT_HISTORY),
     chat |-> Len(heap) + 1]

\* lines 199-206: the store and the heap after get-or-create, and the session held
get_or_create(chats, heap, u) ==
    IF u \in DOMAIN chats
    THEN [chats |-> chats, heap |-> heap, chat |-> chats[u]]
    ELSE [chats |-> Put(chats, u, Len(heap) + 1), heap |-> Append(heap, CHAT_HISTORY),
          chat |-> Len(heap) + 1]

\* cmd_start, lines 163-172: delete, then store a new session
StartEnter(t, u) ==
    /\ Arrives(t, u)
    /\ kind' = [kind EXCEPT ![t] = "start"]
    /\ chat_id' = [chat_id EXCEPT ![t] = u]
    /\ sessions' = Append(sessions, START_HISTORY)
    /\ user_chats' = Put(Del(user_chats, u), u, Len(sessions) + 1)
    /\ pc' = [pc EXCEPT ![t] = "greet"]
    /\ overflowed' = [overflowed EXCEPT ![u] = FALSE]
    /\ UNCHANGED << clock, user_limits, usage_stats, LAST_REQUEST_TS, ADMIN_CHAT_ID,
                    admitted, chat, wake, parts, reply, error_msg, outbox, billing,
                    ord, invoked, msgs_today, admits_today, prev_slot, recorded,
                    reported >>

\* cmd_start, lines 174-178: the greeting; nothing catches its failure
Greet(t, env) ==
    /\ pc[t] = "greet"
    /\ \E ok \in env.sends :
          /\ Answer(t, ok, "GREETING", << >>, "MARKDOWN")
          /\ Return(t, IF ok THEN "done" ELSE "raised")
    /\ UNCHANGED << clock, store, usage_stats, LAST_REQUEST_TS, ADMIN_CHAT_ID, kind,
                    chat_id, admitted, billing, history >>

\* chat_with_gemini, lines 186-206: everything before the first await
ChatEnter(t, u) ==
    /\ Arrives(t, u)
    /\ kind' = [kind EXCEPT ![t] = "text"]
    /\ chat_id' = [chat_id EXCEPT ![t] = u]
    /\ msgs_today' = [msgs_today EXCEPT ![u] = @ + 1]
    /\ ord' = [ord EXCEPT ![t] = msgs_today[u] + 1]
    /\ overflowed' = [overflowed EXCEPT ![u] = FALSE]
    /\ LET r == check_user_limit(user_limits, u, today) IN
       /\ admitted' = [admitted EXCEPT ![t] = r.ok]
       /\ IF ~r.ok
          THEN /\ user_limits' = r.limits
               /\ pc' = [pc EXCEPT ![t] = "decline"]
               /\ UNCHANGED << user_chats, sessions, chat, admits_today >>
          ELSE LET g == get_or_create(user_chats, sessions, u) IN
               /\ user_limits' = inc_user_limit(r.limits, u, today)
               /\ user_chats' = g.chats
               /\ sessions' = g.heap
               /\ chat' = [chat EXCEPT ![t] = g.chat]
               /\ admits_today' = [admits_today EXCEPT ![u] = @ + 1]
               /\ pc' = [pc EXCEPT ![t] = "typing"]
    /\ UNCHANGED << clock, usage_stats, LAST_REQUEST_TS, ADMIN_CHAT_ID, wake, parts,
                    reply, error_msg, outbox, billing, invoked, prev_slot, recorded,
                    reported >>

\* lines 190-194: the over-limit reply; nothing catches its failure
Decline(t, env) ==
    /\ pc[t] = "decline"
    /\ \E ok \in env.sends :
          /\ Answer(t, ok, "OVER_LIMIT", << >>, "MARKDOWN")
          /\ Return(t, IF ok THEN "done" ELSE "raised")
    /\ UNCHANGED << clock, store, usage_stats, LAST_REQUEST_TS, ADMIN_CHAT_ID, kind,
                    chat_id, admitted, billing, history >>

\* line 105, LAST_REQUEST_TS = time.time(), then line 214's call is under way
TakeSlot(t) ==
    /\ LAST_REQUEST_TS' = now
    /\ prev_slot' = LAST_REQUEST_TS
    /\ invoked' = [invoked EXCEPT ![t] = TRUE]
    /\ pc' = [pc EXCEPT ![t] = "call"]
    /\ wake' = [wake EXCEPT ![t] = 0]

\* line 208 (outside the try), then wait_for_slot, lines 101-104, up to its await
Typing(t, env) ==
    /\ pc[t] = "typing"
    /\ \E ok \in env.sends :
          IF ~ok
          THEN /\ Return(t, "raised")
               /\ UNCHANGED << LAST_REQUEST_TS, prev_slot, invoked >>
          ELSE LET delta == now - LAST_REQUEST_TS IN
               /\ IF delta < MIN_DELAY
                  THEN /\ wake' = [wake EXCEPT ![t] = now + (MIN_DELAY - delta)]
                       /\ pc' = [pc EXCEPT ![t] = "sleeping"]
                       /\ UNCHANGED << LAST_REQUEST_TS, prev_slot, invoked >>
                  ELSE TakeSlot(t)
               /\ UNCHANGED << chat, parts, reply, error_msg >>
    /\ UNCHANGED << clock, store, usage_stats, ADMIN_CHAT_ID, kind, chat_id, admitted,
                    outbox, billing, ord, msgs_today, admits_today, recorded, reported,
                    overflowed >>

\* asyncio.sleep returns, line 105, then line 214's call
Wake(t) ==
    /\ pc[t] = "sleeping"
    /\ now >= wake[t]
    /\ TakeSlot(t)
    /\ UNCHANGED << clock, store, usage_stats, ADMIN_CHAT_ID, kind, chat_id, admitted,
                    chat, parts, reply, error_msg, outbox, billing, ord, msgs_today,
                    admits_today, recorded, reported, overflowed >>

\* The except block of lines 227-249 up to the await of its reply.
Except(t, e) ==
    LET x == except_block(user_chats, chat_id[t], e) IN
    /\ error_msg' = [error_msg EXCEPT ![t] = e]
    /\ reply' = [reply EXCEPT ![t] = x.reply]
    /\ user_chats' = x.chats
    /\ overflowed' = [overflowed EXCEPT ![chat_id[t]] = @ \/ x.reply = "MEMORY_RESET"]
    /\ parts' = [parts EXCEPT ![t] = << >>]
    /\ pc' = [pc EXCEPT ![t] = "err_reply"]

\* The turns ChatSession.send_message_async appends on success.
Turns(t) == << [role |-> "user", parts |-> "text", of |-> t],
               [role |-> "model", parts |-> "reply", of |-> t] >>

\* send_message_async returns or raises; lines 216-225 up to the next await
ModelReturn(t, env) ==
    /\ pc[t] = "call"
    /\ \/ \E response \in env.responses :
          /\ sessions' = [sessions EXCEPT ![chat[t]] = @ \o Turns(t)]
          /\ usage_stats' = update_usage_from_response(usage_stats, response)
          /\ recorded' = [recorded EXCEPT ![today] =
                 AddUsage(@, SubUsage(Counters(usage_stats'), Counters(usage_stats)))]
          /\ reported' = AddReported(reported, ReportedUsage(response))
          /\ IF response.text # << >>
             THEN /\ parts' = [parts EXCEPT ![t] = split_text(response.text, MAX_LENGTH)]
                  /\ pc' = [pc EXCEPT ![t] = "send_part"]
             ELSE /\ pc' = [pc EXCEPT ![t] = "empty_reply"]
                  /\ UNCHANGED parts
          /\ UNCHANGED << user_chats, reply, error_msg, overflowed >>
       \/ \E e \in env.errors :
          /\ Except(t, e)
          /\ UNCHANGED << sessions, usage_stats, recorded, reported >>
    /\ UNCHANGED << clock, user_limits, LAST_REQUEST_TS, ADMIN_CHAT_ID, kind, chat_id,
                    admitted, chat, wake, outbox, billing, ord, invoked, msgs_today,
                    admits_today, prev_slot >>

\* safe_send_message: after a chunk is delivered, the next one or the return
NextPart(t) ==
    IF Tail(parts[t]) = << >>
    THEN Return(t, "done")
    ELSE /\ parts' = [parts EXCEPT ![t] = Tail(@)]
         /\ pc' = [pc EXCEPT ![t] = "send_part"]
         /\ UNCHANGED << chat, wake, reply, error_msg >>

\* line 123: the chunk in Markdown mode; line 124 catches its failure
SendPart(t, env) ==
    /\ pc[t] = "send_part"
    /\ \E ok \in env.sends :
          /\ Answer(t, ok, "PART", Head(parts[t]), "MARKDOWN")
          /\ IF ok THEN NextPart(t)
             ELSE /\ pc' = [pc EXCEPT ![t] = "send_plain"]
                  /\ UNCHANGED << chat, wake, parts, reply, error_msg >>
    /\ UNCHANGED << clock, store, usage_stats, LAST_REQUEST_TS, ADMIN_CHAT_ID, kind,
                    chat_id, admitted, billing, history >>

\* line 125: the retry without a parse mode; its failure leaves safe_send_message
\* and is caught by line 227
SendPlain(t, env) ==
    /\ pc[t] = "send_plain"
    /\ \E ok \in env.sends :
          /\ Answer(t, ok, "PART", Head(parts[t]), "PLAIN")
          /\ IF ok
             THEN NextPart(t) /\ UNCHANGED << user_chats, overflowed >>
             ELSE \E e \in env.send_errors : Except(t, e) /\ UNCHANGED << chat, wake >>
    /\ UNCHANGED << clock, user_limits, sessions, usage_stats, LAST_REQUEST_TS,
                    ADMIN_CHAT_ID, kind, chat_id, admitted, billing, ord, invoked,
                    msgs_today, admits_today, prev_slot, recorded, reported >>

\* line 225: the empty-reply notice, inside the try
EmptyReply(t, env) ==
    /\ pc[t] = "empty_reply"
    /\ \E ok \in env.sends :
          /\ Answer(t, ok, "EMPTY", << >>, "MARKDOWN")
          /\ IF ok
             THEN Return(t, "done") /\ UNCHANGED << user_chats, overflowed >>
             ELSE \E e \in env.send_errors : Except(t, e) /\ UNCHANGED << chat, wake >>
    /\ UNCHANGED << clock, user_limits, sessions, usage_stats, LAST_REQUEST_TS,
                    ADMIN_CHAT_ID, kind, chat_id, admitted, billing, ord, invoked,
                    msgs_today, admits_today, prev_slot, recorded, reported >>

\* lines 233, 243, 249: the reply of the except block; nothing catches its failure
ErrReply(t, env) ==
    /\ pc[t] = "err_reply"
    /\ \E ok \in env.sends :
          /\ Answer(t, ok, reply[t], << >>, "MARKDOWN")
          /\ Return(t, IF ok THEN "done" ELSE "raised")
    /\ UNCHANGED << clock, store, usage_stats, LAST_REQUEST_TS, ADMIN_CHAT_ID, kind,
                    chat_id, admitted, billing, history >>

\* -------------------------------------------------------------- clock
\* d ticks pass.  Time is let pass only while the throttle can see it: a task sleeps
\* towards a deadline, or the last slot is less than MIN_DELAY old.  Once the slot
\* is older, wait_for_slot takes the same branch however much older it gets.
Tick(d) ==
    /\ \/ \E t \in Tasks : pc[t] = "sleeping" /\ wake[t] > now
       \/ now - LAST_REQUEST_TS < MIN_DELAY
    /\ now' = now + d
    /\ UNCHANGED << today, store, usage_stats, LAST_REQUEST_TS, ADMIN_CHAT_ID, pc,
                    locals, outbox, billing, history >>

\* Midnight.  billing_notifier wakes every hour, so it has dealt with the day that
\* ends before the next one ends.
Midnight ==
    /\ today < MaxDay
    /\ bpc = "returned" \/ (bpc = "sleep" /\ last_reported_date = today)
    /\ today' = today + 1
    /\ msgs_today' = [u \in Users |-> 0]
    /\ admits_today' = [u \in Users |-> 0]
    /\ UNCHANGED << now, store, usage_stats, LAST_REQUEST_TS, ADMIN_CHAT_ID, pc, locals,
                    outbox, billing, ord, invoked, prev_slot, recorded, reported,
                    overflowed >>

\* ---------------------------------------------------- billing_notifier
\* lines 288-300: the hourly wake-up; the report is built before the await of line 302
BillingWake ==
    /\ bpc = "sleep"
    /\ IF today # last_reported_date
       THEN /\ btoday' = today
            /\ text' = [usage_stats EXCEPT !.date = last_reported_date]
            /\ bpc' = "send"
       ELSE UNCHANGED << btoday, text, bpc >>
    /\ UNCHANGED << clock, store, usage_stats, LAST_REQUEST_TS, ADMIN_CHAT_ID, pc,
                    locals, outbox, last_reported_date, reports, history >>

\* lines 301-313: send_message returns or raises (logged), then the reset
BillingSend(env) ==
    /\ bpc = "send"
    /\ \E ok \in env.sends : reports' = IF ok THEN Append(reports, text) ELSE reports
    /\ usage_stats' = ZeroStats(btoday)
    /\ last_reported_date' = btoday
    /\ bpc' = "sleep"
    /\ reported' = ZeroReported
    /\ UNCHANGED << clock, store, LAST_REQUEST_TS, ADMIN_CHAT_ID, pc, locals, outbox,
                    btoday, text, ord, invoked, msgs_today, admits_today, prev_slot,
                    recorded, overflowed >>

\* ----------------------------------------------------- specifications
\* The whole program against an arbitrary network.
EnvAny == Env(Responses, Errors, Unreliable, Errors)

Next ==
    \/ \E t \in Tasks, u \in Users : StartEnter(t, u)
    \/ \E t \in Tasks, u \in Users : ChatEnter(t, u)
    \/ \E t \in Tasks : Greet(t, EnvAny)
    \/ \E t \in Tasks : Decline(t, EnvAny)
    \/ \E t \in Tasks : Typing(t, EnvAny)
    \/ \E t \in Tasks : Wake(t)
    \/ \E t \in Tasks : ModelReturn(t, EnvAny)
    \/ \E t \in Tasks : SendPart(t, EnvAny)
    \/ \E t \in Tasks : SendPlain(t, EnvAny)
    \/ \E t \in Tasks : EmptyReply(t, EnvAny)
    \/ \E t \in Tasks : ErrReply(t, EnvAny)
    \/ Tick(1)
    \/ Midnight
    \/ BillingWake
    \/ BillingSend(EnvAny)

Spec == Init /\ [][Next]_vars

\* The rate limiter: text messages over the days, a Gemini that answers and a
\* Telegram that delivers.
EnvCalm == Env({PlainResponse}, {}, Reliable, {})

NextLimit ==
    \/ \E t \in Tasks, u \in Users : ChatEnter(t, u)
    \/ \E t \in Tasks : Decline(t, EnvCalm)
    \/ \E t \in Tasks : Typing(t, EnvCalm)
    \/ \E t \in Tasks : Wake(t)
    \/ \E t \in Tasks : ModelReturn(t, EnvCalm)
    \/ \E t \in Tasks : SendPart(t, EnvCalm)
    \/ Tick(MIN_DELAY)
    \/ Midnight

SpecLimit == InitWith({0}) /\ [][NextLimit]_vars

\* The session store: /start and text messages within one day, a Gemini that
\* answers or fails on its quota or on the size of the context.
EnvOverflow ==
    Env({PlainResponse}, {{"429"}, {"400"}}, Reliable, {})

NextSession ==
    \/ \E t \in Tasks, u \in Users : StartEnter(t, u)
    \/ \E t \in Tasks, u \in Users : ChatEnter(t, u)
    \/ \E t \in Tasks : Greet(t, EnvCalm)
    \/ \E t \in Tasks : Decline(t, EnvCalm)
    \/ \E t \in Tasks : Typing(t, EnvCalm)
    \/ \E t \in Tasks : Wake(t)
    \/ \E t \in Tasks : ModelReturn(t, EnvOverflow)
    \/ \E t \in Tasks : SendPart(t, EnvCalm)
    \/ \E t \in Tasks : ErrReply(t, EnvCalm)
    \/ Tick(MIN_DELAY)

SpecSession == InitWith({0}) /\ [][NextSession]_vars

\* The throttle: the clock in single ticks.
NextThrottle ==
    \/ \E t \in Tasks, u \in Users : ChatEnter(t, u)
    \/ \E t \in Tasks : Decline(t, EnvCalm)
    \/ \E t \in Tasks : Typing(t, EnvCalm)
    \/ \E t \in Tasks : Wake(t)
    \/ \E t \in Tasks : ModelReturn(t, EnvCalm)
    \/ \E t \in Tasks : SendPart(t, EnvCalm)
    \/ Tick(1)

SpecThrottle == InitWith({0}) /\ [][NextThrottle]_vars

\* The specifications below follow one task fewer.
Few == 1..(MaxTasks - 1)

\* The failures: Gemini's errors and Telegram's, within one day.
EnvFaulty ==
    Env({ Response(txt, None, None) : txt \in {<< >>, [i \in 1..MaxTextLen |-> i]} },
        Errors, Unreliable, {{}, {"400"}})

NextFaults ==
    \/ \E t \in Few, u \in Users : StartEnter(t, u)
    \/ \E t \in Few, u \in Users : ChatEnter(t, u)
    \/ \E t \in Few : Greet(t, EnvFaulty)
    \/ \E t \in Few : Typing(t, EnvFaulty)
    \/ \E t \in Few : Wake(t)
    \/ \E t \in Few : ModelReturn(t, EnvFaulty)
    \/ \E t \in Few : SendPart(t, EnvFaulty)
    \/ \E t \in Few : SendPlain(t, EnvFaulty)
    \/ \E t \in Few : EmptyReply(t, EnvFaulty)
    \/ \E t \in Few : ErrReply(t, EnvFaulty)
    \/ Tick(MIN_DELAY)

SpecFaults == InitWith({0}) /\ [][NextFaults]_vars

\* The stores under failure: /start and text messages of two tasks within one day,
\* a Gemini that answers or fails with any of the errors, and a Telegram whose
\* failed sends read as an overflow.
EnvFrame ==
    Env({PlainResponse}, Errors, Unreliable, {{"400"}})

NextFrame ==
    \/ \E t \in Few, u \in Users : StartEnter(t, u)
    \/ \E t \in Few, u \in Users : ChatEnter(t, u)
    \/ \E t \in Few : Greet(t, EnvFrame)
    \/ \E t \in Few : Typing(t, EnvFrame)
    \/ \E t \in Few : Wake(t)
    \/ \E t \in Few : ModelReturn(t, EnvFrame)
    \/ \E t \in Few : SendPart(t, EnvFrame)
    \/ \E t \in Few : SendPlain(t, EnvFrame)
    \/ \E t \in Few : ErrReply(t, EnvFrame)
    \/ Tick(MIN_DELAY)

SpecFrame == InitWith({0}) /\ [][NextFrame]_vars

\* The replies: one chat, every reply text, and chunks whose send may fail.
EnvSplit == Env({ Response(txt, None, None) : txt \in Texts }, {}, Unreliable, {{}})

NextSplit ==
    \/ \E t \in Few : ChatEnter(t, 1)
    \/ \E t \in Few : Typing(t, EnvCalm)
    \/ \E t \in Few : Wake(t)
    \/ \E t \in Few : ModelReturn(t, EnvSplit)
    \/ \E t \in Few : SendPart(t, EnvSplit)
    \/ \E t \in Few : SendPlain(t, EnvSplit)
    \/ \E t \in Few : EmptyReply(t, EnvCalm)
    \/ \E t \in Few : ErrReply(t, EnvCalm)
    \/ Tick(MIN_DELAY)

SpecSplit == InitWith({0}) /\ [][NextSplit]_vars

\* The ledger: every shape of usage metadata, the days and the reporting loop.
EnvUsage == Env({ r \in Responses : r.text = <<1>> }, {}, Unreliable, {})

NextUsage ==
    \/ \E t \in Few, u \in Users : ChatEnter(t, u)
    \/ \E t \in Few : Typing(t, EnvCalm)
    \/ \E t \in Few : Wake(t)
    \/ \E t \in Few : ModelReturn(t, EnvUsage)
    \/ \E t \in Few : SendPart(t, EnvCalm)
    \/ Tick(MIN_DELAY)
    \/ Midnight
    \/ BillingWake
    \/ BillingSend(EnvUsage)

SpecUsage == InitWith({1}) /\ [][NextUsage]_vars

\* The ledger alone: one chat, every shape of usage metadata, the days, and no
\* reporting loop.
NextLedger ==
    \/ \E t \in Few : ChatEnter(t, 1)
    \/ \E t \in Few : Typing(t, EnvCalm)
    \/ \E t \in Few : Wake(t)
    \/ \E t \in Few : ModelReturn(t, EnvUsage)
    \/ \E t \in Few : SendPart(t, EnvCalm)
    \/ Tick(MIN_DELAY)
    \/ Midnight

SpecLedger == InitWith({0}) /\ [][NextLedger]_vars

\* ------------------------------------------------------------- claims
\* The step in which task t's handler starts for a text message of user u.
EntersText(t, u) ==
    pc[t] = "idle" /\ pc'[t] # "idle" /\ kind'[t] = "text" /\ chat_id'[t] = u

Started(t) == pc[t] # "idle" /\ kind[t] = "text"

\* C1: for every user and day, the first MAX_MESSAGES_PER_DAY text messages of the
\* user are admitted (the handler passes the gate and goes on towards the model
\* call) and the next one that day is declined, and the model is never invoked
\* for a declined message.
C1_CapAdmitsThenDeclines ==
    \A t \in Tasks : Started(t) =>
        /\ admitted[t] <=> ord[t] <= MAX_MESSAGES_PER_DAY
        /\ admitted[t] => invoked[t] \/ pc[t] \in {"typing", "sleeping", "raised"}
        /\ ~admitted[t] => ~invoked[t] /\ pc[t] \in {"decline", "done", "raised"}

\* A user's first two messages of a day went to the model and the third was declined.
C1_Witness ==
    \E a, b, c \in Tasks :
        /\ chat_id[a] = chat_id[b] /\ chat_id[b] = chat_id[c]
        /\ Started(a) /\ Started(b) /\ Started(c)
        /\ ord[a] = MAX_MESSAGES_PER_DAY - 1 /\ invoked[a]
        /\ ord[b] = MAX_MESSAGES_PER_DAY /\ invoked[b]
        /\ ord[c] = MAX_MESSAGES_PER_DAY + 1 /\ ~admitted[c] /\ pc[c] = "done"
        /\ today = 1

\* C2: any two values written to LAST_REQUEST_TS differ by at least MIN_DELAY.  The
\* clock never runs backwards, so it is enough that each write is MIN_DELAY after
\* the value it overwrites.
C2_SlotsSpaced ==
    (\E t \in Tasks : invoked[t]) => LAST_REQUEST_TS - prev_slot >= MIN_DELAY

\* C3: the stored count of the current day is the number of admit-and-record pairs
\* of that day; and when the stored date is not today, the next message is
\* admitted and leaves a count of 1, whatever count was stored.
C3_CountIsAdmitsAndRollover ==
    [][ /\ \A u \in DOMAIN user_limits' :
              user_limits'[u].date = today' => user_limits'[u].count = admits_today'[u]
        /\ \A t \in Tasks, u \in Users :
              (EntersText(t, u) /\ u \in DOMAIN user_limits /\ user_limits[u].date # today)
              => /\ admitted'[t]
                 /\ user_limits'[u] = [date |-> today, count |-> 1] ]_vars

\* A user used up the cap on day 1 and was admitted again after midnight.
C3_Witness ==
    \E a, b \in Tasks :
        /\ chat_id[a] = chat_id[b] /\ Started(a) /\ Started(b)
        /\ a < b
        /\ ord[a] = MAX_MESSAGES_PER_DAY /\ admitted[a]
        /\ ord[b] = 1 /\ admitted[b]
        /\ today = 2
        /\ user_limits[chat_id[b]] = [date |-> 2, count |-> 1]

\* C5: a declined message changes nothing but the chat: the step that declines and
\* the step that sends the over-limit reply leave the sessions, the throttle, the
\* ledger and the stored counts alone, invoke no model, and what is delivered is
\* the over-limit reply.
C5_DeclineTouchesNothing ==
    [][ \A t \in Tasks :
          ((pc[t] = "idle" /\ pc'[t] = "decline") \/ (pc[t] = "decline" /\ pc'[t] # "decline"))
          => /\ UNCHANGED << user_limits, user_chats, sessions, LAST_REQUEST_TS, usage_stats,
                             invoked, admits_today >>
             /\ pc[t] = "decline" =>
                   /\ pc'[t] \in {"done", "raised"}
                   /\ pc'[t] = "done" =>
                         outbox' = [outbox EXCEPT ![chat_id[t]] =
                                       Append(@, Sent(t, "OVER_LIMIT", << >>, "MARKDOWN"))]
                   /\ pc'[t] = "raised" => outbox' = outbox ]_vars

\* A declined message got its over-limit reply while another user's session lives.
C5_Witness ==
    \E t \in Tasks :
        /\ Started(t) /\ ~admitted[t] /\ pc[t] = "done"
        /\ \E i \in 1..Len(outbox[chat_id[t]]) :
              outbox[chat_id[t]][i] = Sent(t, "OVER_LIMIT", << >>, "MARKDOWN")
        /\ chat_id[t] \in DOMAIN user_chats
        /\ user_limits[chat_id[t]].count = MAX_MESSAGES_PER_DAY

\* C4 as stated: after a context overflow the user's session is absent when the
\* handler finishes, and the user's next text message creates a fresh session
\* holding exactly the preamble pair.
C4_AbsentThenFresh ==
    [][ /\ \A t \in Tasks :
              (pc[t] = "err_reply" /\ reply[t] = "MEMORY_RESET" /\ pc'[t] = "done")
              => chat_id[t] \notin DOMAIN user_chats'
        /\ \A t \in Tasks, u \in Users :
              (EntersText(t, u) /\ overflowed[u])
              => /\ u \in DOMAIN user_chats'
                 /\ user_chats'[u] = Len(sessions) + 1
                 /\ sessions'[user_chats'[u]] = CHAT_HISTORY ]_vars

\* C4 as amended: the context overflow removes the user's session in the step that
\* handles it, the session stays absent until the user's next message is handled,
\* and if that message is a text the rate limiter admits it creates a fresh
\* session, a new object holding exactly the preamble pair, which the handler uses.
C4_AbsentUntilNextThenFresh ==
    [][ /\ \A u \in Users : overflowed'[u] => u \notin DOMAIN user_chats'
        /\ \A t \in Tasks :
              (pc[t] \in {"call", "send_plain", "empty_reply"} /\ pc'[t] = "err_reply"
               /\ reply'[t] = "MEMORY_RESET")
              => overflowed'[chat_id[t]]
        /\ \A t \in Tasks, u \in Users :
              (EntersText(t, u) /\ overflowed[u] /\ admitted'[t])
              => /\ u \in DOMAIN user_chats'
                 /\ user_chats'[u] = Len(sessions) + 1
                 /\ chat'[t] = user_chats'[u]
                 /\ sessions'[user_chats'[u]] = CHAT_HISTORY ]_vars

\* With no /start in the run, a user was told of the memory reset and the user's
\* next message is being handled on a second, fresh session.
C4_Witness ==
    \E a, b \in Tasks :
        /\ a < b /\ chat_id[a] = chat_id[b] /\ Started(a) /\ Started(b)
        /\ \A t \in Tasks : kind[t] = "text"
        /\ \E i \in 1..Len(outbox[chat_id[a]]) :
              outbox[chat_id[a]][i] = Sent(a, "MEMORY_RESET", << >>, "MARKDOWN")
        /\ pc[b] = "typing"
        /\ chat[b] > 1
        /\ chat_id[b] \in DOMAIN user_chats
        /\ user_chats[chat_id[b]] = chat[b]
        /\ sessions[chat[b]] = CHAT_HISTORY

\* C6: a quota-exhausted failure of the model call leaves the session store as it
\* is, chooses the try-later reply, and the handler then delivers that reply and
\* returns without raising.
C6_QuotaKeepsSessionAndReturns ==
    [][ \A t \in Tasks :
          /\ (pc[t] = "call" /\ pc'[t] = "err_reply" /\ is_quota(error_msg'[t]))
             => /\ UNCHANGED << user_chats, sessions >>
                /\ reply'[t] = "TRY_LATER"
          /\ (pc[t] = "err_reply" /\ is_quota(error_msg[t]) /\ pc'[t] # "err_reply")
             => /\ UNCHANGED << user_chats, sessions >>
                /\ pc'[t] = "done"
                /\ outbox' = [outbox EXCEPT ![chat_id[t]] =
                                 Append(@, Sent(t, "TRY_LATER", << >>, "MARKDOWN"))] ]_vars

\* C7: every report delivered holds exactly the totals of the usage recorded during
\* the completed day it is for.
C7_ReportIsCompletedDay ==
    \A i \in 1..Len(reports) : Counters(reports[i]) = recorded[reports[i].date]

\* C8 as stated: the four counters are the number of responses that carried usage
\* metadata and the sums of the input, output and total counts they reported.
C8_CountersAreReportedSums ==
    /\ usage_stats.requests = reported.requests
    /\ usage_stats.input_tokens = reported.input_tokens
    /\ usage_stats.output_tokens = reported.output_tokens
    /\ usage_stats.total_tokens = reported.total_tokens

\* C8 as amended: requests, input and output are as stated, and the total counter
\* adds, for each response that carried metadata, the total it reported or, when it
\* reported none (or zero), its input plus its output.
C8_TotalFallsBackToSum ==
    /\ usage_stats.requests = reported.requests
    /\ usage_stats.input_tokens = reported.input_tokens
    /\ usage_stats.output_tokens = reported.output_tokens
    /\ usage_stats.total_tokens = reported.total_or_sum

\* Two calls returned, one without metadata and one whose metadata has no total.
C8_Witness ==
    /\ \E a, b \in Tasks : a # b /\ invoked[a] /\ invoked[b] /\ pc[a] = "done" /\ pc[b] = "done"
    /\ usage_stats.requests = 1
    /\ reported.total_tokens = 0
    /\ usage_stats.total_tokens = 2
    /\ reports = << >>

\* C9: a chunk whose Markdown send fails is retried once in plain mode, and when the
\* retry fails too the reply goes on with the next chunk.
C9_PlainFailureSkipsOneChunk ==
    [][ \A t \in Tasks :
          /\ (pc[t] = "send_part" /\ pc'[t] # "send_part" /\ outbox' = outbox)
             => pc'[t] = "send_plain" /\ parts'[t] = parts[t]
          /\ (pc[t] = "send_plain" /\ pc'[t] # "send_plain" /\ Len(parts[t]) > 1)
             => pc'[t] = "send_part" /\ parts'[t] = Tail(parts[t]) ]_vars

\* C10: no exception leaves chat_with_gemini.
C10_NoExceptionEscapes ==
    \A t \in Tasks : kind[t] = "text" => pc[t] # "raised"

\* What the stores hold for user v: the rate-limit record, and the session object
\* with its history.
LimitOf(limits, v) == IF v \in DOMAIN limits THEN << limits[v] >> ELSE << >>
SessionOf(chats, heap, v) ==
    IF v \in DOMAIN chats THEN << chats[v], heap[chats[v]] >> ELSE << >>
\* Task t's handler takes a step.
Acts(t) == pc'[t] # pc[t] \/ parts'[t] # parts[t]

\* C11: a step of a handler for user U, whether it starts the handler, replies,
\* fails or resets, leaves the session (the stored object and its history) and the
\* rate-limit record of every other user as they were.
C11_OthersUntouched ==
    [][ \A t \in Tasks, v \in Users :
          (Acts(t) /\ chat_id'[t] # v)
          => /\ LimitOf(user_limits', v) = LimitOf(user_limits, v)
             /\ SessionOf(user_chats', sessions', v) = SessionOf(user_chats, sessions, v) ]_vars

\* A context overflow removed one user's session while the other user's session and
\* record are in place.
C11_Witness ==
    \E a, b \in Tasks :
        /\ chat_id[a] # chat_id[b] /\ Started(a) /\ Started(b)
        /\ pc[a] = "err_reply" /\ reply[a] = "MEMORY_RESET"
        /\ chat_id[a] \notin DOMAIN user_chats
        /\ chat_id[b] \in DOMAIN user_chats
        /\ Len(sessions[user_chats[chat_id[b]]]) > 2
        /\ user_limits[chat_id[b]].count = 1

\* C12: in every chat the replies appear in the order the user's messages were
\* received: a reply to an earlier message (a task that started earlier) is never
\* delivered after a reply to a later one.
C12_RepliesInOrder ==
    \A u \in Users : \A i, j \in 1..Len(outbox[u]) :
        i < j => outbox[u][i].task <= outbox[u][j].task

\* The concatenation of a list of chunks.
RECURSIVE Join(_)
Join(chunks) == IF chunks = << >> THEN << >> ELSE Head(chunks) \o Join(Tail(chunks))

\* The chunks of task t's reply that reached the chat, in order.
RECURSIVE DeliveredParts(_, _)
DeliveredParts(box, t) ==
    IF box = << >> THEN << >>
    ELSE (IF Head(box).task = t /\ Head(box).kind = "PART" THEN << Head(box).body >>
          ELSE << >>) \o DeliveredParts(Tail(box), t)

WellSplit(chunks, txt, max_length) ==
    /\ Join(chunks) = txt
    /\ \A i \in 1..Len(chunks) : Len(chunks[i]) <= max_length
    /\ \A i \in 1..(Len(chunks) - 1) : Len(chunks[i]) = max_length

\* C13: for every text, the empty one included, and every max_length, the chunks
\* of split_text concatenate to the text, none is longer than max_length and only
\* the last may be shorter; and while a reply is being sent, the chunks delivered
\* followed by the chunks still to send are such a split of a reply text.
C13_SplitJoinsAndBounds ==
    /\ \A txt \in Texts, m \in 1..(MaxTextLen + 1) : WellSplit(split_text(txt, m), txt, m)
    /\ split_text(<< >>, MAX_LENGTH) = << >>
    /\ \A t \in Tasks : pc[t] \in {"send_part", "send_plain"} =>
          \E txt \in Texts :
              WellSplit(DeliveredParts(outbox[chat_id[t]], t) \o parts[t], txt, MAX_LENGTH)

\* The first chunk of a reply longer than a chunk was delivered and a shorter last
\* chunk is still to send.
C13_Witness ==
    \E t \in Tasks :
        /\ pc[t] = "send_part"
        /\ Len(DeliveredParts(outbox[chat_id[t]], t)) = 1
        /\ Len(parts[t]) = 1
        /\ Len(parts[t][1]) < MAX_LENGTH

\* C14: an admitted text message of a user who has a session in the store is sent
\* to that session: the handler holds the stored object, makes no new one and
\* leaves the store and every history alone, holds it up to the model call,
\* and the model call's turns are appended to it.  A session is created, a new
\* object seeded with the preamble pair, only when the user has none.
C14_ExistingSessionReused ==
    [][ /\ \A t \in Tasks, u \in Users :
              (EntersText(t, u) /\ admitted'[t])
              => IF u \in DOMAIN user_chats
                 THEN /\ chat'[t] = user_chats[u]
                      /\ UNCHANGED << user_chats, sessions >>
                 ELSE /\ user_chats' = Put(user_chats, u, Len(sessions) + 1)
                      /\ sessions' = Append(sessions, CHAT_HISTORY)
                      /\ chat'[t] = Len(sessions) + 1
        /\ \A t \in Tasks :
              /\ (pc[t] \in {"typing", "sleeping", "call"} /\ pc'[t] \in {"sleeping", "call"})
                 => chat'[t] = chat[t]
              /\ (pc[t] = "call" /\ pc'[t] \in {"send_part", "empty_reply"})
                 => sessions' = [sessions EXCEPT ![chat[t]] = @ \o Turns(t)] ]_vars

\* Two messages of one user were answered on the same session: its history is the
\* preamble pair followed by the turns of both.
C14_Witness ==
    \E a, b \in Tasks :
        /\ a < b /\ chat_id[a] = chat_id[b] /\ Started(a) /\ Started(b)
        /\ pc[a] = "done" /\ pc[b] = "done"
        /\ Len(sessions) = 1
        /\ chat_id[a] \in DOMAIN user_chats
        /\ user_chats[chat_id[a]] = 1
        /\ sessions[1] = CHAT_HISTORY \o Turns(a) \o Turns(b)

\* C15: a session leaves the store only by /start or by a model call that failed
\* with a context overflow: whenever a user who had a session has none after a
\* step, the step is a handler of that user leaving its model call for the
\* memory-reset reply.  (/start replaces the session within one step.)
C15_RemovedOnlyByResetOrOverflow ==
    [][ \A u \in Users :
          (u \in DOMAIN user_chats /\ u \notin DOMAIN user_chats')
          => \E t \in Tasks :
                /\ chat_id[t] = u
                /\ pc[t] = "call" /\ pc'[t] = "err_reply"
                /\ reply'[t] = "MEMORY_RESET" ]_vars

\* C16: the reporting loop reads and resets the counters atomically with respect
\* to update_usage_from_response: the counters it sets to zero are the counters it
\* put in the report, so no increment is dropped by the reset.
C16_ResetDropsNothing ==
    [][ (bpc = "send" /\ bpc' = "sleep") => Counters(usage_stats) = Counters(text) ]_vars

\* C17: the typing indicator is best-effort: whatever becomes of its send, the
\* handler goes on to the throttle (it waits for the slot or takes it and calls
\* the model) for the message it has already counted.
C17_TypingFailureIgnored ==
    [][ \A t \in Tasks :
          (pc[t] = "typing" /\ pc'[t] # "typing")
          => /\ pc'[t] \in {"sleeping", "call"}
             /\ chat'[t] = chat[t] ]_vars

\* The admitted text messages of user u, and those of them admitted today: handlers
\* start in the order of the tasks, so today's are the latest admits_today[u].
AdmittedOf(u) == { t \in Tasks : Started(t) /\ chat_id[t] = u /\ admitted[t] }
AdmittedToday(u) ==
    { t \in AdmittedOf(u) : Cardinality({ s \in AdmittedOf(u) : s >= t }) <= admits_today[u] }

\* C18 as stated: the stored count of the current day is at most the cap, and so
\* is the number of model calls made for a user within one day.  The calls for
\* messages admitted today were made today; so when a call starts, today's calls
\* of the user are at least those and, if its message was admitted on an earlier
\* day, this one.
C18_CapOnCallsOfADay ==
    [][ /\ \A u \in DOMAIN user_limits' :
              user_limits'[u].date = today' => user_limits'[u].count <= MAX_MESSAGES_PER_DAY
        /\ \A t \in Tasks :
              (invoked'[t] /\ ~invoked[t])
              => Cardinality({ s \in AdmittedToday(chat_id[t]) \cup {t} : invoked'[s] })
                 <= MAX_MESSAGES_PER_DAY ]_vars

\* C18 as amended: the stored count of the current day is at most the cap, at most
\* the cap of a user's messages are admitted on one day, and the model is invoked
\* only for admitted messages: the model calls made for the messages of one day
\* never exceed the cap.
C18_CapOnMessagesOfADay ==
    /\ \A u \in DOMAIN user_limits :
          user_limits[u].date = today => user_limits[u].count <= MAX_MESSAGES_PER_DAY
    /\ \A u \in Users :
          /\ Cardinality(AdmittedToday(u)) = admits_today[u]
          /\ admits_today[u] <= MAX_MESSAGES_PER_DAY
    /\ \A t \in Tasks : invoked[t] => Started(t) /\ admitted[t]

\* A message admitted before midnight and the full cap of messages admitted after
\* it have all been sent to the model.
C18_Witness ==
    \E u \in Users :
        /\ today = 2
        /\ admits_today[u] = MAX_MESSAGES_PER_DAY
        /\ u \in DOMAIN user_limits
        /\ user_limits[u] = [date |-> 2, count |-> MAX_MESSAGES_PER_DAY]
        /\ AdmittedOf(u) # AdmittedToday(u)
        /\ \A t \in AdmittedOf(u) : invoked[t]

HasQuotaMarker(e) == e \cap {"429", "Resource exhausted"} # {}
HasContextMarker(e) == e \cap {"Request payload size", "400"} # {}

\* C19: an exception caught by the handler is classified by the first match, quota
\* before context overflow: with a quota marker in its text, a context marker or
\* not, the session store stays as it is and the reply is the try-later one; the
\* user's session is deleted, and the memory-reset reply chosen, only when no quota
\* marker matches and a context marker does; and what the handler then delivers is
\* the reply chosen.
C19_QuotaBeforeContext ==
    [][ \A t \in Tasks :
          /\ (pc[t] # "err_reply" /\ pc'[t] = "err_reply")
             => LET e == error_msg'[t] IN
                /\ HasQuotaMarker(e)
                   => reply'[t] = "TRY_LATER" /\ UNCHANGED << user_chats, sessions >>
                /\ (~HasQuotaMarker(e) /\ HasContextMarker(e))
                   => /\ reply'[t] = "MEMORY_RESET"
                      /\ user_chats' = Del(user_chats, chat_id[t])
                /\ (~HasQuotaMarker(e) /\ ~HasContextMarker(e))
                   => reply'[t] = "ERROR" /\ UNCHANGED << user_chats, sessions >>
          /\ (pc[t] = "err_reply" /\ pc'[t] # "err_reply")
             => /\ UNCHANGED << user_chats, sessions >>
                /\ outbox' # outbox
                   => outbox' = [outbox EXCEPT ![chat_id[t]] =
                                    Append(@, Sent(t, reply[t], << >>, "MARKDOWN"))] ]_vars

\* An error with both a quota and a context marker was answered with the try-later
\* reply, and the user's session is still the one the call was made on.
C19_Witness ==
    \E t \in Tasks :
        /\ Started(t) /\ pc[t] = "done" /\ invoked[t]
        /\ \E i \in 1..Len(outbox[chat_id[t]]) :
              outbox[chat_id[t]][i] = Sent(t, "TRY_LATER", << >>, "MARKDOWN")
        /\ chat_id[t] \in DOMAIN user_chats
        /\ \E s \in Tasks :
              /\ pc[s] = "err_reply"
              /\ error_msg[s] = {"Resource exhausted", "Request payload size"}
              /\ chat_id[s] \in DOMAIN user_chats
              /\ user_chats[chat_id[s]] = chat[s]

\* C20: when a model call of a handler completes, by a response or by an error,
\* the session it was made on is the session stored for the handler's user.
C20_CallEndsOnStoredSession ==
    [][ \A t \in Tasks :
          (pc[t] = "call" /\ pc'[t] # "call")
          => /\ chat_id[t] \in DOMAIN user_chats
             /\ user_chats[chat_id[t]] = chat[t] ]_vars

====
